---- MODULE Spec2Model ----
(***************************************************************************)
(* Model of the connect-based port scanner, src/python/port_scan.py:       *)
(* scan_ports (the probe loop of one host and its statistics) and main     *)
(* (the loop over the hosts, the per-host report and the run summary).     *)
(*                                                                         *)
(* The program is one thread; pc is its position.  The environment         *)
(* decides the result of every socket call and every reading of the wall   *)
(* clock.  probed, outcomes, scans and trace are history variables: they   *)
(* record what happened and are read by no action.                         *)
(***************************************************************************)
EXTENDS Integers, Sequences, FiniteSets

\* ------------------------------------------------------------------ bounds
\* A run has at most MaxHosts hosts and MaxPorts ports and makes at most
\* MaxProbes connection attempts; the clock reads a value of 0 .. MaxTime.
MaxHosts == 2
MaxPorts == 2
MaxProbes == 2
MaxTime == 1

\* The hosts and ports the command line may name (argparse: any strings, any
\* integers; 80 and 443 are the defaults, 70000 is an integer that is no TCP
\* port), and the values a reading of time.time() may return.
HostNames == {"localhost", "10.0.0.9"}
PortNumbers == {80, 443, 70000}
Times == 0 .. MaxTime

SeqsUpTo(S, n) == UNION {[1 .. k -> S] : k \in 0 .. n}

VARIABLES
  hosts,               \* args.hosts
  ports,               \* args.ports
  pc,                  \* position of the one thread of control
  exc,                 \* the exception that ended the run, or "none"
  h,                   \* index in hosts of the host being processed
  total_start_time,    \* main: time.time() before the first host
  main_open_ports,     \* main: the dict open_ports, host -> list of ports
  all_stats,           \* main: the dict all_stats, host -> stats
  summary,             \* main: the totals of lines 75-84
  i,                   \* scan_ports: index in ports of the loop variable
  attempts,            \* scan_ports: attempts
  errors,              \* scan_ports: errors
  open_ports,          \* scan_ports: open_ports
  s,                   \* scan_ports: the local s (0: not bound yet)
  start_time,          \* scan_ports: start_time
  pending,             \* exception in flight while the finally block runs
  sockets,             \* sockets created by the scanner and not closed
  nsock,               \* number of sockets created so far
  probed,              \* history: ports attempted by the current scan
  outcomes,            \* history: classification of each of those attempts
  scans,               \* history: stats of every scan_ports call that returned
  trace                \* history: the events of the run, in order

vars == <<hosts, ports, pc, exc, h, total_start_time, main_open_ports,
          all_stats, summary, i, attempts, errors, open_ports, s, start_time,
          pending, sockets, nsock, probed, outcomes, scans, trace>>

inputVars == <<hosts, ports>>
mainVars == <<total_start_time, main_open_ports, all_stats, summary>>
scanVars == <<i, attempts, errors, open_ports, s, start_time>>
histVars == <<probed, outcomes, scans>>

\* ----------------------------------------------------------------- helpers

\* a / b of Python on numbers: the exact quotient, kept as the fraction
\* <<a, b>>; a zero divisor raises ZeroDivisionError, written DivFault.
DivFault == <<0, 0>>
TrueDiv(a, b) == IF b = 0 THEN DivFault ELSE <<a, b>>
Zero == <<0, 1>>

\* d[k] = v on a dict
DictSet(d, k, v) == [x \in (DOMAIN d) \cup {k} |-> IF x = k THEN v ELSE d[x]]
EmptyDict == [x \in {} |-> 0]

RECURSIVE SumOver(_, _, _)
SumOver(d, keys, field) ==
  IF keys = {} THEN 0
  ELSE LET k == CHOOSE x \in keys : TRUE
       IN d[k][field] + SumOver(d, keys \ {k}, field)

\* sum(stats[field] for stats in all_stats.values())
SumValues(d, field) == SumOver(d, DOMAIN d, field)

Event(kind, k, detail) == [ev |-> kind, host |-> k, detail |-> detail]

\* s.connect((host, port)) checks the port before any network traffic
PortInRange(p) == 0 <= p /\ p <= 65535

\* -------------------------------------------------------------------- Init
Init ==
  /\ hosts \in SeqsUpTo(HostNames, MaxHosts)
  /\ ports \in SeqsUpTo(PortNumbers, MaxPorts)
  /\ Len(hosts) * Len(ports) <= MaxProbes
  /\ pc = "main_start"
  /\ exc = "none"
  /\ h = 0
  /\ total_start_time = 0
  /\ main_open_ports = EmptyDict
  /\ all_stats = EmptyDict
  /\ summary = [total_duration |-> 0, total_ports_scanned |-> 0,
                total_open_ports |-> 0, average |-> Zero]
  /\ i = 0
  /\ attempts = 0
  /\ errors = 0
  /\ open_ports = <<>>
  /\ s = 0
  /\ start_time = 0
  /\ pending = "none"
  /\ sockets = {}
  /\ nsock = 0
  /\ probed = <<>>
  /\ outcomes = <<>>
  /\ scans = <<>>
  /\ trace = <<>>

\* ------------------------------------------------------------------- main

\* main, lines 44-53: read the arguments, start the clock, print the header.
MainStart ==
  /\ pc = "main_start"
  /\ \E t \in Times : total_start_time' = t
  /\ trace' = Append(trace, Event("header", 0, <<Len(hosts), Len(ports)>>))
  /\ pc' = "host_loop"
  /\ UNCHANGED <<inputVars, exc, h, main_open_ports, all_stats, summary,
                 scanVars, pending, sockets, nsock, histVars>>

\* main, lines 55-57, and scan_ports, lines 8-12: the next host is announced
\* and scan_ports is entered with fresh locals (s is not bound yet).
CallScanPorts ==
  /\ pc = "host_loop"
  /\ h < Len(hosts)
  /\ h' = h + 1
  /\ trace' = Append(trace, Event("scan", h + 1, hosts[h + 1]))
  /\ \E t \in Times : start_time' = t
  /\ open_ports' = <<>>
  /\ attempts' = 0
  /\ errors' = 0
  /\ i' = 1
  /\ s' = 0
  /\ probed' = <<>>
  /\ outcomes' = <<>>
  /\ pc' = "port_loop"
  /\ UNCHANGED <<inputVars, exc, mainVars, pending, sockets, nsock, scans>>

\* ------------------------------------------------------------- scan_ports

\* lines 14-19: the loop takes the next port, counts the attempt and creates
\* the socket.  socket.socket() either returns a new socket, which s names
\* from then on, or raises an OSError (no descriptor left, for one), which
\* leaves s as it was and enters the except clause.
BeginAttempt ==
  /\ pc = "port_loop"
  /\ i <= Len(ports)
  /\ attempts' = attempts + 1
  /\ probed' = Append(probed, ports[i])
  /\ \/ /\ nsock' = nsock + 1
        /\ s' = nsock + 1
        /\ sockets' = sockets \cup {nsock + 1}
        /\ pc' = "connect"
        /\ UNCHANGED outcomes
     \/ /\ pc' = "except"
        /\ outcomes' = Append(outcomes, "Unreachable")
        /\ UNCHANGED <<s, sockets, nsock>>
  /\ UNCHANGED <<inputVars, exc, h, mainVars, i, errors, open_ports, start_time,
                 pending, scans, trace>>

\* ConnectOpen with the port put at the front of the list instead of the end.
ConnectOpenPrepend ==
  /\ pc = "connect"
  /\ PortInRange(ports[i])
  /\ open_ports' = <<ports[i]>> \o open_ports
  /\ sockets' = sockets \ {s}
  /\ outcomes' = Append(outcomes, "Open")
  /\ pc' = "finally"
  /\ UNCHANGED <<inputVars, exc, h, mainVars, i, attempts, errors, s, start_time,
                 pending, nsock, probed, scans, trace>>

\* lines 20-22, the connection is made: the port is appended, the socket closed.
ConnectOpen ==
  /\ pc = "connect"
  /\ PortInRange(ports[i])
  /\ open_ports' = Append(open_ports, ports[i])
  /\ sockets' = sockets \ {s}
  /\ outcomes' = Append(outcomes, "Open")
  /\ pc' = "finally"
  /\ UNCHANGED <<inputVars, exc, h, mainVars, i, attempts, errors, s, start_time,
                 pending, nsock, probed, scans, trace>>

\* line 20 raises an OSError (refused, timed out, unreachable, resolution).
ConnectRefused ==
  /\ pc = "connect"
  /\ PortInRange(ports[i])
  /\ outcomes' = Append(outcomes, "Unreachable")
  /\ pc' = "except"
  /\ UNCHANGED <<inputVars, exc, h, mainVars, scanVars, pending, sockets, nsock,
                 probed, scans, trace>>

\* line 20 with a port outside 0..65535: connect raises OverflowError, which
\* is no OSError, so the except clause of line 23 does not take it; the
\* finally block runs with the exception in flight.
ConnectOverflow ==
  /\ pc = "connect"
  /\ ~PortInRange(ports[i])
  /\ outcomes' = Append(outcomes, "Unreachable")
  /\ pending' = "OverflowError"
  /\ pc' = "finally"
  /\ UNCHANGED <<inputVars, exc, h, mainVars, scanVars, sockets, nsock, probed,
                 scans, trace>>

\* Except with the error left uncounted.
ExceptNoCount ==
  /\ pc = "except"
  /\ pc' = "finally"
  /\ UNCHANGED <<inputVars, exc, h, mainVars, scanVars, pending, sockets, nsock,
                 histVars, trace>>

\* lines 23-26: the error is counted.
Except ==
  /\ pc = "except"
  /\ errors' = errors + 1
  /\ pc' = "finally"
  /\ UNCHANGED <<inputVars, exc, h, mainVars, i, attempts, open_ports, s,
                 start_time, pending, sockets, nsock, histVars, trace>>

\* Finally without the close of line 29: only line 22 closes the socket.
FinallyNoClose ==
  /\ pc = "finally"
  /\ IF pending # "none"
       THEN /\ pc' = "raised"
            /\ exc' = pending
            /\ UNCHANGED i
       ELSE /\ pc' = "port_loop"
            /\ i' = i + 1
            /\ UNCHANGED exc
  /\ pending' = "none"
  /\ UNCHANGED <<inputVars, h, mainVars, attempts, errors, open_ports, s,
                 start_time, sockets, nsock, histVars, trace>>

\* lines 27-29: s.close().  With s not bound (the first socket.socket() of
\* this call failed) the name lookup raises UnboundLocalError; otherwise the
\* socket s names is closed (closing a closed socket does nothing), and an
\* exception in flight goes on out of the function.
Finally ==
  /\ pc = "finally"
  /\ IF s = 0
       THEN /\ pc' = "raised"
            /\ exc' = "UnboundLocalError"
            /\ UNCHANGED <<i, sockets>>
       ELSE /\ sockets' = sockets \ {s}
            /\ IF pending # "none"
                 THEN /\ pc' = "raised"
                      /\ exc' = pending
                      /\ UNCHANGED i
                 ELSE /\ pc' = "port_loop"
                      /\ i' = i + 1
                      /\ UNCHANGED exc
  /\ pending' = "none"
  /\ UNCHANGED <<inputVars, h, mainVars, attempts, errors, open_ports, s,
                 start_time, nsock, histVars, trace>>

\* line 35
ClosedPorts(nerrors, nopen) == nerrors - nopen

\* line 37
PortsPerSecond(n, scan_duration) ==
  IF scan_duration > 0 THEN TrueDiv(n, scan_duration) ELSE Zero

\* lines 31-38
Stats(t) ==
  LET scan_duration == t - start_time
  IN [total_ports |-> attempts,
      open_ports |-> Len(open_ports),
      closed_ports |-> ClosedPorts(errors, Len(open_ports)),
      scan_duration |-> scan_duration,
      ports_per_second |-> PortsPerSecond(attempts, scan_duration)]

\* lines 31-40 of scan_ports and the assignment of line 57 of main: the loop
\* is over, the clock is read, the statistics are derived and both results
\* are stored under the host's name.
ScanReturn ==
  /\ pc = "port_loop"
  /\ i > Len(ports)
  /\ \E t \in Times :
       LET stats == Stats(t)
       IN IF stats.ports_per_second = DivFault
            THEN /\ pc' = "raised"
                 /\ exc' = "ZeroDivisionError"
                 /\ UNCHANGED <<main_open_ports, all_stats, scans, trace>>
            ELSE /\ main_open_ports' = DictSet(main_open_ports, hosts[h], open_ports)
                 /\ all_stats' = DictSet(all_stats, hosts[h], stats)
                 /\ scans' = Append(scans, stats)
                 /\ trace' = Append(trace, Event("return", h, hosts[h]))
                 /\ pc' = "report"
                 /\ UNCHANGED exc
  /\ UNCHANGED <<inputVars, h, total_start_time, summary, scanVars, pending,
                 sockets, nsock, probed, outcomes>>

\* ------------------------------------------------------------------- main

\* HostReport with the section left out of the loop over the hosts.
HostReportMissing ==
  /\ pc = "report"
  /\ pc' = "host_loop"
  /\ UNCHANGED <<inputVars, exc, h, mainVars, scanVars, pending, sockets, nsock,
                 histVars, trace>>

\* lines 59-73: the host's section of the report: its open ports, or the
\* notice that there are none (with verbose the section also shows
\* all_stats[host]; the section is one event either way).
HostReport ==
  /\ pc = "report"
  /\ trace' = Append(trace, Event("section", h, main_open_ports[hosts[h]]))
  /\ pc' = "host_loop"
  /\ UNCHANGED <<inputVars, exc, h, mainVars, scanVars, pending, sockets, nsock,
                 histVars>>

\* line 76
TotalPortsScanned == SumValues(all_stats, "total_ports")

\* line 77
TotalOpenPorts == SumValues(all_stats, "open_ports")

\* lines 75-81: after the last host the totals are computed and the first
\* three lines of the summary are printed.
Summary ==
  /\ pc = "host_loop"
  /\ h >= Len(hosts)
  /\ \E t \in Times :
       summary' = [summary EXCEPT !.total_duration = t - total_start_time,
                                  !.total_ports_scanned = TotalPortsScanned,
                                  !.total_open_ports = TotalOpenPorts]
  /\ trace' = Append(trace, Event("summary", 0, <<>>))
  /\ pc' = "rate"
  /\ UNCHANGED <<inputVars, exc, h, total_start_time, main_open_ports, all_stats,
                 scanVars, pending, sockets, nsock, histVars>>

\* line 83
AverageSpeed(n, total_duration) == TrueDiv(n, total_duration)

\* lines 82-84: the average speed is computed and printed; main returns.
PrintAverage ==
  /\ pc = "rate"
  /\ LET avg == AverageSpeed(summary.total_ports_scanned, summary.total_duration)
     IN IF avg = DivFault
          THEN /\ pc' = "raised"
               /\ exc' = "ZeroDivisionError"
               /\ UNCHANGED <<summary, trace>>
          ELSE /\ summary' = [summary EXCEPT !.average = avg]
               /\ trace' = Append(trace, Event("average", 0, <<>>))
               /\ pc' = "done"
               /\ UNCHANGED exc
  /\ UNCHANGED <<inputVars, h, total_start_time, main_open_ports, all_stats,
                 scanVars, pending, sockets, nsock, histVars>>

Next ==
  \/ MainStart
  \/ CallScanPorts
  \/ BeginAttempt
  \/ ConnectOpen
  \/ ConnectRefused
  \/ ConnectOverflow
  \/ Except
  \/ Finally
  \/ ScanReturn
  \/ HostReport
  \/ Summary
  \/ PrintAverage

Spec == Init /\ [][Next]_vars

\* ------------------------------------------------------ notions of the claims

\* The per-host scan in progress has raised: the last event of the run is the
\* start of a scan that never returned.
InScan == trace # <<>> /\ trace[Len(trace)].ev = "scan"
ScanRaised == pc = "raised" /\ InScan
ScanReturned == pc = "report"
Terminated == pc \in {"done", "raised"}

\* Two quotients are the same number.
QEq(p, q) == p # DivFault /\ q # DivFault /\ p[1] * q[2] = q[1] * p[2]

RECURSIVE SumSeq(_, _)
SumSeq(sq, field) ==
  IF sq = <<>> THEN 0 ELSE sq[1][field] + SumSeq(Tail(sq), field)

\* The occurrences of ps whose attempt was classified Open, in order.
RECURSIVE OpenOccurrences(_, _)
OpenOccurrences(ps, outs) ==
  IF ps = <<>> \/ outs = <<>> THEN <<>>
  ELSE (IF outs[1] = "Open" THEN <<ps[1]>> ELSE <<>>)
         \o OpenOccurrences(Tail(ps), Tail(outs))

Count(sq, x) == Cardinality({k \in 1 .. Len(sq) : sq[k] = x})

IsPrefix(a, b) == Len(a) <= Len(b) /\ \A k \in 1 .. Len(a) : a[k] = b[k]

\* The events of a complete run over n hosts: header, then scan, return and
\* section of host 1, of host 2, ..., then the summary and its average.
ExpectedEvents(n) ==
  [j \in 1 .. 3 * n + 3 |->
     IF j = 1 THEN <<"header", 0>>
     ELSE IF j = 3 * n + 2 THEN <<"summary", 0>>
     ELSE IF j = 3 * n + 3 THEN <<"average", 0>>
     ELSE <<CASE (j - 2) % 3 = 0 -> "scan"
              [] (j - 2) % 3 = 1 -> "return"
              [] OTHER -> "section",
            (j - 2) \div 3 + 1>>]

EventsOf(tr) == [j \in 1 .. Len(tr) |-> <<tr[j].ev, tr[j].host>>]

\* --------------------------------------------------------------------- C1
\* C1: every stats record scan_ports returns has
\* closed_ports = total_ports - open_ports.
C1_ClosedIsTotalMinusOpen ==
  \A k \in 1 .. Len(scans) :
    scans[k].closed_ports = scans[k].total_ports - scans[k].open_ports

\* --------------------------------------------------------------------- C2
\* C2: no failure of one attempt leaves the probe loop as an exception: a scan
\* that has begun never ends by raising.
C2_NoExceptionLeavesLoop == ~ScanRaised

\* --------------------------------------------------------------------- C3
\* C3: when a scan has ended, exactly one attempt was made per element of
\* ports, in order (no early exit, no retry), and the stats it returns have
\* total_ports = len(ports).
C3_OneAttemptPerPort ==
  /\ (ScanReturned \/ ScanRaised) => probed = ports
  /\ ScanReturned => all_stats[hosts[h]].total_ports = Len(ports)

\* --------------------------------------------------------------------- C4
\* C4: at every head of the probe loop, and in what scan_ports returns,
\* open_ports is the subsequence of the occurrences of ports classified Open,
\* in probe order, and stats.open_ports is its length.
C4_OpenPortsSubsequence ==
  /\ pc = "port_loop" => open_ports = OpenOccurrences(probed, outcomes)
  /\ ScanReturned =>
       /\ Len(outcomes) = Len(ports)
       /\ main_open_ports[hosts[h]] = OpenOccurrences(ports, outcomes)
       /\ all_stats[hosts[h]].open_ports = Len(main_open_ports[hosts[h]])

\* A port probed twice and open both times is reported twice.
C4_Witness ==
  /\ ScanReturned
  /\ Len(ports) = 2
  /\ ports[1] = ports[2]
  /\ main_open_ports[hosts[h]] = ports

\* --------------------------------------------------------------------- C5
\* C5: the totals of the summary are the sums of total_ports and of open_ports
\* over all the scan_ports calls of the run, one per element of hosts.
C5_SummarySumsAllScans ==
  pc \in {"rate", "done"} =>
    /\ Len(scans) = Len(hosts)
    /\ summary.total_ports_scanned = SumSeq(scans, "total_ports")
    /\ summary.total_open_ports = SumSeq(scans, "open_ports")

\* --------------------------------------------------------------------- C6
\* C6: every run ends without an error, with every host scanned and the whole
\* summary printed.
C6_RunCompletes ==
  Terminated =>
    /\ pc = "done"
    /\ exc = "none"
    /\ Len(scans) = Len(hosts)
    /\ trace[Len(trace)].ev = "average"

\* --------------------------------------------------------------------- C7
\* C7: at most one socket of the scanner is open at any time, and one is open
\* only inside an attempt: none at the head of the probe loop, none when
\* scan_ports has returned or raised, none between the hosts.
C7_NoSocketLeft ==
  /\ Cardinality(sockets) <= 1
  /\ pc \notin {"connect", "except", "finally"} => sockets = {}

\* Two attempts were made with a socket each, one of them failed, and the
\* loop is back at its head.
C7_Witness ==
  /\ pc = "port_loop"
  /\ nsock = 2
  /\ errors >= 1
  /\ sockets = {}

\* --------------------------------------------------------------------- C8
\* C8: every stats record has scan_duration >= 0, and ports_per_second is
\* total_ports / scan_duration when scan_duration > 0 and 0 when it is 0.
C8_DurationAndRate ==
  \A k \in 1 .. Len(scans) :
    /\ scans[k].scan_duration >= 0
    /\ scans[k].scan_duration > 0 =>
         QEq(scans[k].ports_per_second,
             <<scans[k].total_ports, scans[k].scan_duration>>)
    /\ scans[k].scan_duration = 0 => scans[k].ports_per_second = Zero

\* --------------------------------------------------------------------- C9
\* C9: the events of a run come in the fixed order header; scan, return and
\* section of each host in the order of hosts; summary: what has happened so
\* far is always a beginning of that sequence, each scan is of the host at
\* its place in hosts, and a run that ends normally has produced all of it.
C9_EventOrder ==
  /\ IsPrefix(EventsOf(trace), ExpectedEvents(Len(hosts)))
  /\ \A j \in 1 .. Len(trace) :
       trace[j].ev \in {"scan", "return"} =>
         trace[j].detail = hosts[trace[j].host]
  /\ pc = "done" => EventsOf(trace) = ExpectedEvents(Len(hosts))

\* A run over two hosts has ended normally.
C9_Witness == pc = "done" /\ Len(hosts) = 2

\* -------------------------------------------------------------------- C10
\* C10: at every head of the probe loop each attempt made so far is counted
\* exactly once: attempts = errors + len(open_ports), the open ones in
\* open_ports and the others in errors.
C10_AttemptsCountedOnce ==
  pc = "port_loop" =>
    /\ attempts = i - 1
    /\ attempts = errors + Len(open_ports)
    /\ Len(open_ports) = Count(outcomes, "Open")
    /\ errors = Count(outcomes, "Unreachable")

\* Two iterations are complete, one open and one error.
C10_Witness ==
  /\ pc = "port_loop"
  /\ attempts = 2
  /\ errors = 1
  /\ Len(open_ports) = 1

====
